---- MODULE Spec2Model ----
(***************************************************************************)
(* Model of the request-dispatch pipeline of the reverse proxy:            *)
(*   host router -> site handler (path mux, timeout guard, logging)        *)
(*   -> load balancer -> forwarder.                                        *)
(* Strings are TLA+ strings; paths, hosts, queries and upstream addresses  *)
(* are handled with Len / SubSeq / \o the way the Go code handles them.    *)
(***************************************************************************)
EXTENDS Integers, Sequences, FiniteSets, TLC

VARIABLES
    \* ---- host router (internal/application/host) ----
    sites,      \* the dispatch table handed to HostRouter: set of domains
    hostReq,    \* the request the router served last
    hostResp,   \* what the client got for it (served: the router has run)
    \* ---- load balancer (site.LoadBalancer) ----
    lbArgs,     \* what NewLoadBalancer was called with, and the error it returned
    lb,         \* the *LoadBalancer NewLoadBalancer returned (nil: it returned an error)
    mu,         \* lb.mu: 0 when free, else the caller holding it
    lpc,        \* each caller's position inside Next
    lret,       \* each caller's local result of the switch in Next
    calls,      \* the results Next has returned so far, in the order of return
    \* ---- path router (the http.ServeMux NewSiteHandler fills) ----
    muxRoutes,  \* cfg.Proxy.Paths[i].Path, in declaration order
    muxReq,     \* the request the mux served last
    muxRes,     \* the handler the mux chose for it (served: the mux has run)
    \* ---- one site: build (cmd/app/main.go) and requests (site.Handler) ----
    cfg,        \* the *global.SiteConfig LoadConfigs produced for the site
    handler,    \* what NewSiteHandler(logger, cfg) returned (nil before the build)
    configs,    \* main's dispatch table: the domains entered so far
    rq,         \* each request of the site: guard, forwarder, buffer, client side
    \* ---- start-up: config.LoadConfigs(dir) ----
    files,      \* what os.ReadDir(dir) returns: the entries of dir, sorted by name
    load,       \* LoadConfigs: position in the loop, the map so far, the result
    \* ---- start-up: the handler construction loop of main ----
    main        \* main: position, the sites LoadConfigs gave it, those not yet visited

hostVars == <<sites, hostReq, hostResp>>
lbVars == <<lbArgs, lb, mu, lpc, lret, calls>>
muxVars == <<muxRoutes, muxReq, muxRes>>
srvVars == <<cfg, handler, configs, rq>>
startVars == <<files, load, main>>
vars == <<sites, hostReq, hostResp, lbArgs, lb, mu, lpc, lret, calls,
          muxRoutes, muxReq, muxRes, cfg, handler, configs, rq, files, load, main>>

None == "none"

(***************************************************************************)
(* String helpers (strings.HasPrefix, strings.Index, strings.Split)        *)
(***************************************************************************)
HasPrefix(s, p) == Len(p) <= Len(s) /\ SubSeq(s, 1, Len(p)) = p

HasSuffix(s, p) == Len(p) <= Len(s) /\ SubSeq(s, Len(s) - Len(p) + 1, Len(s)) = p

\* 1-based position of the first occurrence of sub in s, 0 when absent
Index(s, sub) ==
    LET hits == {i \in 1..(Len(s) - Len(sub) + 1) : SubSeq(s, i, i + Len(sub) - 1) = sub}
    IN  IF hits = {} THEN 0 ELSE CHOOSE i \in hits : \A j \in hits : i <= j

\* strings.Split(s, sep)[0]
SplitFirst(s, sep) ==
    IF Index(s, sep) = 0 THEN s ELSE SubSeq(s, 1, Index(s, sep) - 1)

\* what is left of s after its first n characters
Drop(s, n) == SubSeq(s, n + 1, Len(s))

(***************************************************************************)
(* Responses the standard library produces                                 *)
(***************************************************************************)
\* a 404 that carries no body
NotFoundResponse_EmptyBody == [status |-> 404, body |-> ""]

\* http.NotFound / http.NotFoundHandler: http.Error(w, "404 page not found", 404)
NotFoundResponse == [status |-> 404, body |-> "404 page not found\n"]

(***************************************************************************)
(* Host router                                                             *)
(***************************************************************************)
Domains == {"example.com", "test.local"}
Hosts == {d \o p : d \in Domains \cup {"unknown.com", ""}, p \in {"", ":8080", ":443"}}
Methods == {"GET", "POST"}
HostPaths == {"/", "/path"}

\* what the handler registered for a domain answers (the tests' site handlers)
SiteResponse(domain) == [status |-> 200, body |-> "Response from " \o domain]

\* a lookup under the Host header as it came, port and all
HostKey_WithPort(host) == host

\* host := strings.Split(r.Host, ":")[0]
HostKey(host) == SplitFirst(host, ":")

\* a router that hands a request for an unknown host to a default site
HostRouter_DefaultSite(table, r) ==
    LET host == HostKey(r.host)
    IN  IF host \notin table /\ table # {}
        THEN LET d == CHOOSE x \in table : TRUE
             IN  [served |-> TRUE, hit |-> FALSE, delegated |-> d, resp |-> SiteResponse(d)]
        ELSE [served |-> TRUE, hit |-> host \in table, delegated |-> None,
              resp |-> NotFoundResponse]

\* HostRouter's closure: the table is looked up (hit is the ok of
\* sites[host]), the hit branch is empty, and http.NotFound is written on
\* every path through the function.
HostRouter(table, r) ==
    LET host == HostKey(r.host)
    IN  IF host \in table
        THEN [served |-> TRUE, hit |-> TRUE, delegated |-> None, resp |-> NotFoundResponse]
        ELSE [served |-> TRUE, hit |-> FALSE, delegated |-> None, resp |-> NotFoundResponse]

NoHostReq == [host |-> "", method |-> "", path |-> ""]
NoHostResp ==
    [served |-> FALSE, hit |-> FALSE, delegated |-> None, resp |-> [status |-> 0, body |-> ""]]

HostIdle ==
    /\ sites = {}
    /\ hostReq = NoHostReq
    /\ hostResp = NoHostResp

InitHostOnly ==
    /\ sites \in SUBSET Domains
    /\ hostReq = NoHostReq
    /\ hostResp = NoHostResp

ServeHost ==
    \E h \in Hosts, m \in Methods, p \in HostPaths :
        LET r == [host |-> h, method |-> m, path |-> p]
        IN  /\ hostReq' = r
            /\ hostResp' = HostRouter(sites, r)
            /\ UNCHANGED sites
            /\ UNCHANGED <<lbVars, muxVars, srvVars, startVars>>

(***************************************************************************)
(* Upstream addresses and url.Parse                                        *)
(***************************************************************************)
\* net/url.Parse on the addresses of the model: an address that starts with
\* ':' has no protocol scheme and is an error; the empty address parses to
\* the empty URL; otherwise scheme "://" host [ "?" query ].
ParseURL(s) ==
    LET colon == Index(s, ":")
        scheme == IF colon > 1 THEN SubSeq(s, 1, colon - 1) ELSE ""
        rest0 == IF colon > 1 THEN Drop(s, colon) ELSE s
        q == Index(rest0, "?")
        rest == IF q = 0 THEN rest0 ELSE SubSeq(rest0, 1, q - 1)
        query == IF q = 0 THEN "" ELSE Drop(rest0, q)
        host == IF HasPrefix(rest, "//") THEN Drop(rest, 2) ELSE ""
    IN  IF colon = 1
        THEN [err |-> TRUE, Scheme |-> "", Host |-> "", RawQuery |-> ""]
        ELSE [err |-> FALSE, Scheme |-> scheme, Host |-> host, RawQuery |-> query]

(***************************************************************************)
(* LoadBalancer                                                            *)
(***************************************************************************)
MaxUpstreams == 3      \* longest upstream list drawn
MaxCallers == 2        \* goroutines calling Next concurrently
MaxCalls == 4          \* calls of Next per run
CursorBits == 3        \* width of currentIndex in the model (uint64 in the code)

RECURSIVE Pow2(_)
Pow2(n) == IF n = 0 THEN 1 ELSE 2 * Pow2(n - 1)
CursorModulus == Pow2(CursorBits)

Backends == <<"http://b1", "http://b2", "http://b3", "http://b4">>
Algorithms == {"round-robin", "", "random", "least-conn"}
Callers == 1..MaxCallers

\* the upstream lists handed to NewLoadBalancer: the first n backends, and
\* lists that hold an address url.Parse rejects
UpstreamLists ==
    {SubSeq(Backends, 1, n) : n \in 0..MaxUpstreams}
        \cup {<<"://bad">>, <<"http://b1", "://bad">>}

\* the nil *LoadBalancer
NilLB == [nil |-> TRUE, upstreams |-> <<>>, algorithm |-> "", currentIndex |-> 0]
NoURL == [err |-> FALSE, Scheme |-> "", Host |-> "", RawQuery |-> ""]
NoPick == [caller |-> 0, index |-> -1, pos |-> 0, url |-> NoURL]

\* a constructor that leaves out the addresses that do not parse and
\* returns what is left
NewLoadBalancer_SkipInvalid(upstreams, algorithm) ==
    [err |-> None,
     lb |-> [nil |-> FALSE,
             upstreams |-> SelectSeq([i \in 1..Len(upstreams) |-> ParseURL(upstreams[i])],
                                     LAMBDA u : ~u.err),
             algorithm |-> algorithm,
             currentIndex |-> 0]]

\* NewLoadBalancer: every address is parsed, the first error is returned;
\* an empty list is an error too.
NewLoadBalancer(upstreams, algorithm) ==
    IF \E i \in 1..Len(upstreams) : ParseURL(upstreams[i]).err
    THEN [err |-> "invalid upstream URL", lb |-> NilLB]
    ELSE IF Len(upstreams) = 0
    THEN [err |-> "no valid upstreams provided", lb |-> NilLB]
    ELSE [err |-> None,
          lb |-> [nil |-> FALSE,
                  upstreams |-> [i \in 1..Len(upstreams) |-> ParseURL(upstreams[i])],
                  algorithm |-> algorithm,
                  currentIndex |-> 0]]

\* an increment that is lost
AddUint64_Lost(v) == v

\* atomic.AddUint64(&lb.currentIndex, 1): the new value
AddUint64(v) == (v + 1) % CursorModulus

\* round-robin that forgets the "- 1" and starts at the second backend
RoundRobin_NoMinusOne(l) ==
    LET new == AddUint64(l.currentIndex)
    IN  {[lb |-> [l EXCEPT !.currentIndex = new],
          index |-> new,
          pos |-> (new % Len(l.upstreams)) + 1]}

\* the round-robin arm of the switch: index := AddUint64(...) - 1;
\* return lb.upstreams[index % len(lb.upstreams)]
RoundRobin(l) ==
    LET new == AddUint64(l.currentIndex)
        index == (new - 1) % CursorModulus
    IN  {[lb |-> [l EXCEPT !.currentIndex = new],
          index |-> index,
          pos |-> (index % Len(l.upstreams)) + 1]}

\* the random arm: index := time.Now().UnixNano() % len(lb.upstreams); the
\* clock is any value, the cursor is not touched
Random(l) ==
    {[lb |-> l, index |-> -1, pos |-> n + 1] : n \in 0..(Len(l.upstreams) - 1)}

\* a switch whose default arm picks at random
NextSwitch_DefaultRandom(l) ==
    CASE l.algorithm \in {"round-robin", ""} -> RoundRobin(l)
      [] OTHER -> Random(l)

\* the switch of Next, with lb.mu held
NextSwitch(l) ==
    CASE l.algorithm \in {"round-robin", ""} -> RoundRobin(l)
      [] l.algorithm = "random" -> Random(l)
      [] OTHER -> RoundRobin(l)

LBIdle ==
    /\ lbArgs = [upstreams |-> <<>>, algorithm |-> "", err |-> None]
    /\ lb = NilLB
    /\ mu = 0
    /\ lpc = [c \in Callers |-> "idle"]
    /\ lret = [c \in Callers |-> NoPick]
    /\ calls = <<>>

InitLBOnly ==
    /\ \E ups \in UpstreamLists, alg \in Algorithms :
           /\ lbArgs = [upstreams |-> ups, algorithm |-> alg,
                        err |-> NewLoadBalancer(ups, alg).err]
           /\ lb = NewLoadBalancer(ups, alg).lb
    /\ mu = 0
    /\ lpc = [c \in Callers |-> "idle"]
    /\ lret = [c \in Callers |-> NoPick]
    /\ calls = <<>>

\* a balancer that has been in use: the calls of Next that returned before
\* the ones observed have advanced the cursor (the random arm leaves it)
AfterCalls(l, k) ==
    IF l.nil \/ l.algorithm = "random" THEN l
    ELSE [l EXCEPT !.currentIndex = k % CursorModulus]

\* how many calls a balancer can have served before: up to the last value
\* of the cursor
EarlierCalls == 0..(CursorModulus - 1)

InitLBUsed ==
    /\ \E ups \in UpstreamLists, alg \in Algorithms, k \in EarlierCalls :
           /\ lbArgs = [upstreams |-> ups, algorithm |-> alg,
                        err |-> NewLoadBalancer(ups, alg).err]
           /\ lb = AfterCalls(NewLoadBalancer(ups, alg).lb, k)
    /\ mu = 0
    /\ lpc = [c \in Callers |-> "idle"]
    /\ lret = [c \in Callers |-> NoPick]
    /\ calls = <<>>

InFlight == Cardinality({c \in Callers : lpc[c] # "idle"})

\* lb.mu.Lock()
NextLock(c) ==
    /\ ~lb.nil
    /\ lpc[c] = "idle"
    /\ mu = 0
    /\ Len(calls) + InFlight < MaxCalls
    /\ mu' = c
    /\ lpc' = [lpc EXCEPT ![c] = "locked"]
    /\ UNCHANGED <<lbArgs, lb, lret, calls>>
    /\ UNCHANGED <<hostVars, muxVars, srvVars, startVars>>

\* the switch on lb.algorithm
NextPick(c) ==
    /\ lpc[c] = "locked"
    /\ \E o \in NextSwitch(lb) :
           /\ lb' = o.lb
           /\ lret' = [lret EXCEPT ![c] =
                          [caller |-> c, index |-> o.index, pos |-> o.pos,
                           url |-> lb.upstreams[o.pos]]]
    /\ lpc' = [lpc EXCEPT ![c] = "picked"]
    /\ UNCHANGED <<lbArgs, mu, calls>>
    /\ UNCHANGED <<hostVars, muxVars, srvVars, startVars>>

\* defer lb.mu.Unlock(), and the return
NextUnlock(c) ==
    /\ lpc[c] = "picked"
    /\ mu' = 0
    /\ calls' = Append(calls, lret[c])
    /\ lpc' = [lpc EXCEPT ![c] = "idle"]
    /\ lret' = [lret EXCEPT ![c] = NoPick]
    /\ UNCHANGED <<lbArgs, lb>>
    /\ UNCHANGED <<hostVars, muxVars, srvVars, startVars>>

(***************************************************************************)
(* Path router: the http.ServeMux of a site with paths                     *)
(***************************************************************************)
MaxRoutes == 3         \* longest route list drawn

\* the path prefixes a site configuration declares
Patterns == {"/", "/api", "/api/", "/api/v1/", "/static/", "api/", ""}
\* the request paths, hosts and methods drawn
RequestPaths == {"/", "/health", "/api", "/api/", "/api/other", "/api/v1",
                 "/api/v1/widgets", "/static/css", "/apiary", "//api/other",
                 "/api//v1/"}
MuxHosts == {"api", "example.com:8080"}
MuxMethods == {"GET", "CONNECT"}

LastChar(s) == SubSeq(s, Len(s), Len(s))
FirstChar(s) == SubSeq(s, 1, 1)

\* http.NewServeMux(): m (pattern -> entry, here the patterns in the order of
\* registration), es (the entries ending in '/', longest first), hosts
NewServeMux == [panic |-> FALSE, m |-> <<>>, es |-> <<>>, hosts |-> FALSE]

\* entries kept in the order of registration
AppendSorted_Unsorted(es, e) == Append(es, e)

\* appendSorted: e goes before the first entry that is strictly shorter
AppendSorted(es, e) ==
    LET shorter == {i \in 1..Len(es) : Len(es[i]) < Len(e)}
        at == IF shorter = {} THEN Len(es) + 1
              ELSE CHOOSE i \in shorter : \A j \in shorter : i <= j
    IN  SubSeq(es, 1, at - 1) \o <<e>> \o SubSeq(es, at, Len(es))

\* mux.Handle(pattern, handler): panics on the empty pattern and on a
\* pattern registered before
MuxHandle(mux, pattern) ==
    IF mux.panic THEN mux
    ELSE IF pattern = "" \/ (\E i \in 1..Len(mux.m) : mux.m[i] = pattern)
    THEN [mux EXCEPT !.panic = TRUE]
    ELSE [panic |-> FALSE,
          m |-> Append(mux.m, pattern),
          es |-> IF LastChar(pattern) = "/" THEN AppendSorted(mux.es, pattern) ELSE mux.es,
          hosts |-> mux.hosts \/ FirstChar(pattern) # "/"]

\* the loop of NewSiteHandler over cfg.Proxy.Paths, as far as the mux goes
RECURSIVE RegisterPaths(_, _)
RegisterPaths(mux, paths) ==
    IF paths = <<>> THEN mux
    ELSE RegisterPaths(MuxHandle(mux, Head(paths)), Tail(paths))

\* the number of the route registered under a pattern
RouteOf(mux, pattern) == CHOOSE i \in 1..Len(mux.m) : mux.m[i] = pattern
Registered(mux, pattern) == \E i \in 1..Len(mux.m) : mux.m[i] = pattern

\* path.Clean on paths without "." and ".." elements: runs of '/' become
\* one '/', a trailing '/' goes (the root stays)
RECURSIVE Collapse(_)
Collapse(p) ==
    IF Len(p) < 2 THEN p
    ELSE IF SubSeq(p, 1, 2) = "//" THEN Collapse(Drop(p, 1))
    ELSE FirstChar(p) \o Collapse(Drop(p, 1))

PathClean(p) ==
    LET c == Collapse(p)
    IN  IF Len(c) > 1 /\ LastChar(c) = "/" THEN SubSeq(c, 1, Len(c) - 1) ELSE c

\* net/http cleanPath
CleanPath(p) ==
    IF p = "" THEN "/"
    ELSE LET p1 == IF FirstChar(p) # "/" THEN "/" \o p ELSE p
             np == PathClean(p1)
         IN  IF LastChar(p1) = "/" /\ np # "/"
             THEN IF Len(p1) = Len(np) + 1 /\ HasPrefix(p1, np) THEN p1 ELSE np \o "/"
             ELSE np

\* net/http stripHostPort
StripHostPort(h) == SplitFirst(h, ":")

NoMatch == [kind |-> "none", route |-> 0, pattern |-> "", location |-> ""]

\* mux.match: the exact pattern first, then the longest entry of es that is
\* a prefix of the path
MuxMatch(mux, path) ==
    IF Registered(mux, path)
    THEN [kind |-> "route", route |-> RouteOf(mux, path), pattern |-> path, location |-> ""]
    ELSE LET hits == {i \in 1..Len(mux.es) : HasPrefix(path, mux.es[i])}
         IN  IF hits = {} THEN NoMatch
             ELSE LET first == CHOOSE i \in hits : \A j \in hits : i <= j
                  IN  [kind |-> "route", route |-> RouteOf(mux, mux.es[first]),
                       pattern |-> mux.es[first], location |-> ""]

\* a mux that hands what matches nothing to the route declared first
MuxHandler_FallbackFirst(mux, host, path) ==
    LET generic == MuxMatch(mux, path)
    IN  IF generic.kind = "none" /\ Len(mux.m) > 0
        THEN [kind |-> "route", route |-> 1, pattern |-> mux.m[1], location |-> ""]
        ELSE generic

\* mux.handler: host-specific patterns first, then the generic ones, then
\* NotFoundHandler
MuxHandler(mux, host, path) ==
    LET byHost == IF mux.hosts THEN MuxMatch(mux, host \o path) ELSE NoMatch
        generic == IF byHost.kind = "none" THEN MuxMatch(mux, path) ELSE byHost
    IN  IF generic.kind = "none"
        THEN [kind |-> "notfound", route |-> 0, pattern |-> "", location |-> ""]
        ELSE generic

\* mux.shouldRedirectRLocked: path is not registered, path + "/" is
ShouldRedirect(mux, host, path) ==
    IF Registered(mux, path) \/ Registered(mux, host \o path) THEN FALSE
    ELSE IF Len(path) = 0 THEN FALSE
    ELSE IF Registered(mux, path \o "/") \/ Registered(mux, host \o path \o "/")
    THEN LastChar(path) # "/"
    ELSE FALSE

Redirect(pattern, location) ==
    [kind |-> "redirect", route |-> 0, pattern |-> pattern, location |-> location]

\* mux.Handler(r): which handler serves the request
MuxServe(mux, r) ==
    IF r.method = "CONNECT"
    THEN IF ShouldRedirect(mux, r.host, r.path)
         THEN Redirect(r.path \o "/", r.path \o "/")
         ELSE MuxHandler(mux, r.host, r.path)
    ELSE LET host == StripHostPort(r.host)
             path == CleanPath(r.path)
         IN  IF ShouldRedirect(mux, host, path)
             THEN Redirect(path \o "/", path \o "/")
             ELSE IF path # r.path
             THEN Redirect(MuxHandler(mux, host, path).pattern, path)
             ELSE MuxHandler(mux, host, r.path)

RECURSIVE SeqsUpTo(_, _)
\* the sequences over S of length 1..n
SeqsUpTo(S, n) ==
    IF n = 0 THEN {}
    ELSE LET shorter == SeqsUpTo(S, n - 1)
         IN  {<<x>> : x \in S} \cup shorter \cup {Append(q, x) : q \in shorter, x \in S}

NoMuxReq == [host |-> "", method |-> "", path |-> ""]
NoMuxRes == [served |-> FALSE, kind |-> "none", route |-> 0, pattern |-> "", location |-> ""]

MuxIdle ==
    /\ muxRoutes = <<>>
    /\ muxReq = NoMuxReq
    /\ muxRes = NoMuxRes

InitMuxOnly ==
    /\ muxRoutes \in SeqsUpTo(Patterns, MaxRoutes)
    /\ muxReq = NoMuxReq
    /\ muxRes = NoMuxRes

\* the mux NewSiteHandler has built for the declared routes
SiteMux == RegisterPaths(NewServeMux, muxRoutes)

\* one request through the mux of a site that was built (the mux keeps no
\* state between requests: one request per run shows all it does)
ServeMux ==
    /\ ~muxRes.served
    /\ ~SiteMux.panic
    /\ \E h \in MuxHosts, m \in MuxMethods, p \in RequestPaths :
           LET r == [host |-> h, method |-> m, path |-> p]
               res == MuxServe(SiteMux, r)
           IN  /\ muxReq' = r
               /\ muxRes' = [served |-> TRUE, kind |-> res.kind, route |-> res.route,
                             pattern |-> res.pattern, location |-> res.location]
    /\ UNCHANGED muxRoutes
    /\ UNCHANGED <<hostVars, lbVars, srvVars, startVars>>

(***************************************************************************)
(* Site configuration (global.SiteConfig) and NewSiteHandler               *)
(***************************************************************************)
\* a maximum that gives a site without timeouts a deadline of one tick
Max_ZeroIsUnset(a, b) ==
    IF a = 0 /\ b = 0 THEN 1 ELSE IF a > b THEN a ELSE b

Max(a, b) == IF a > b THEN a ELSE b

\* a header map is a set of <<name, value>> with one value per name;
\* req.Header.Set(k, v) for every k, v of m
SetHeaders(h, m) == {p \in h : \A q \in m : q[1] # p[1]} \cup m

\* global.ProxyPath; Algorithm "" stands for a nil LoadBalance as well
ProxyPath(path, upstream, upstreams, algorithm, headers) ==
    [Path |-> path, Upstream |-> upstream, Upstreams |-> upstreams,
     Algorithm |-> algorithm, Headers |-> headers]

\* global.SiteConfig: Domain, Proxy.PathBase, Proxy.Paths, Timeouts
SiteConfig(domain, upstream, upstreams, algorithm, headers, paths) ==
    [Domain |-> domain, Upstream |-> upstream, Upstreams |-> upstreams,
     Algorithm |-> algorithm, Headers |-> headers, Paths |-> paths,
     Read |-> 0, Write |-> 0]

NoConfig == SiteConfig("", "", <<>>, "", {}, <<>>)

B1 == "http://b1"
B2 == "http://b2"
B3 == "http://b3"
BQ == "http://b1?t=1"
TwoBackends == <<B1, B2>>

\* the shapes of site a configuration file can declare
SiteShapes ==
    { \* site-level, single upstream (with and without a base query)
      SiteConfig("single.local", B1, <<>>, "", {<<"X-Site", "s">>}, <<>>),
      SiteConfig("singleq.local", BQ, <<>>, "", {}, <<>>),
      \* site-level, load-balanced
      SiteConfig("lb.local", "", TwoBackends, "", {<<"X-Site", "s">>}, <<>>),
      SiteConfig("lbq.local", B3, <<BQ, B2>>, "round-robin", {}, <<>>),
      SiteConfig("lbrand.local", "", TwoBackends, "random", {}, <<>>),
      \* site-level, nothing or nothing usable configured
      SiteConfig("none.local", "", <<>>, "", {}, <<>>),
      SiteConfig("bad.local", "://bad", <<>>, "", {}, <<>>),
      SiteConfig("badlb.local", "", <<B1, "://bad">>, "", {}, <<>>),
      \* routes with a single upstream each
      SiteConfig("paths.local", "", <<>>, "", {<<"X-Site", "s">>},
                 <<ProxyPath("/api/", BQ, <<>>, "",
                             {<<"X-Site", "api">>, <<"X-Route", "api">>}),
                   ProxyPath("/", B2, <<>>, "", {<<"X-Route", "root">>})>>),
      \* a route with its own upstream list, no catch-all
      SiteConfig("pathlb.local", "", <<>>, "", {<<"X-Site", "s">>},
                 <<ProxyPath("/api/", "", TwoBackends, "", {<<"X-Site", "api">>}),
                   ProxyPath("/static/", B3, <<>>, "", {})>>),
      \* routes without backend of their own in a site with an upstream list
      SiteConfig("pathglobal.local", "", TwoBackends, "least-conn", {},
                 <<ProxyPath("/api/", "", <<>>, "", {}),
                   ProxyPath("/", B3, <<>>, "", {})>>),
      \* a route with neither upstream nor upstream list, none on the site either
      SiteConfig("pathnone.local", "", <<>>, "", {},
                 <<ProxyPath("/api/", "", <<>>, "", {}),
                   ProxyPath("/", B2, <<>>, "", {})>>),
      \* routes NewSiteHandler cannot build
      SiteConfig("pathbad.local", "", <<>>, "", {},
                 <<ProxyPath("/api/", "://bad", <<>>, "", {})>>),
      SiteConfig("pathdup.local", "", <<>>, "", {},
                 <<ProxyPath("/api/", B1, <<>>, "", {}),
                   ProxyPath("/api/", B2, <<>>, "", {})>>) }

\* cfg.Timeouts (Read, Write), in ticks: none set, and two that differ
Timeouts == {<<0, 0>>, <<1, 2>>}

SiteConfigs ==
    {[s EXCEPT !.Read = t[1], !.Write = t[2]] : s \in SiteShapes, t \in Timeouts}

\* algorithm := "round-robin"; if LoadBalance != nil && Algorithm != "" ...
AlgorithmOr(a) == IF a # "" THEN a ELSE "round-robin"

\* the handler of NewLoadBalancedProxy (no route: routeHeaders is empty) and
\* of NewLoadBalancedProxyWithHeaders: what the closure holds
NewLoadBalancedProxy(l, siteHeaders, routeHeaders) ==
    [kind |-> "lb", lb |-> l, target |-> NoURL,
     siteHeaders |-> siteHeaders, routeHeaders |-> routeHeaders]

\* httputil.NewSingleHostReverseProxy(target) with the Director of
\* NewSiteHandler; no ErrorHandler is set
NewSingleHostReverseProxy(target, siteHeaders, routeHeaders) ==
    [kind |-> "single", lb |-> NilLB, target |-> target,
     siteHeaders |-> siteHeaders, routeHeaders |-> routeHeaders]

\* the value of the loop variable pathCfg that the Director closures of the
\* single-upstream routes read when a request comes: the loop has ended, and
\* the one variable of the loop (Go 1.21) holds the last element
CapturedPathCfg(c) == c.Paths[Len(c.Paths)]

\* the body of the loop over cfg.Proxy.Paths up to pathProxy
PathProxy(c, i) ==
    LET pathCfg == c.Paths[i]
    IN  IF Len(pathCfg.Upstreams) > 0
        THEN LET r == NewLoadBalancer(pathCfg.Upstreams, AlgorithmOr(pathCfg.Algorithm))
             IN  [err |-> r.err,
                  proxy |-> NewLoadBalancedProxy(r.lb, c.Headers, pathCfg.Headers)]
        ELSE IF Len(c.Upstreams) > 0
        THEN LET r == NewLoadBalancer(c.Upstreams, AlgorithmOr(c.Algorithm))
             IN  [err |-> r.err,
                  proxy |-> NewLoadBalancedProxy(r.lb, c.Headers, pathCfg.Headers)]
        ELSE LET target == ParseURL(pathCfg.Upstream)
             IN  [err |-> IF target.err THEN "invalid upstream for path" ELSE None,
                  proxy |-> NewSingleHostReverseProxy(target, c.Headers,
                                                      CapturedPathCfg(c).Headers)]

\* a *Handler: nil with the error or panic that ended NewSiteHandler, or the
\* mux (paths), the proxy of each route and the duration of the timeout guard
NilHandler(err, panic) ==
    [nil |-> TRUE, err |-> err, panic |-> panic, paths |-> FALSE,
     mux |-> NewServeMux, routes |-> <<>>, dt |-> 0]

NoHandler == NilHandler(None, FALSE)

\* the loop over cfg.Proxy.Paths from route i on: the first route whose proxy
\* cannot be made returns the error, the first pattern mux.Handle refuses
\* panics
RECURSIVE BuildPaths(_, _, _, _)
BuildPaths(c, i, mux, routes) ==
    IF i > Len(c.Paths)
    THEN [nil |-> FALSE, err |-> None, panic |-> FALSE, paths |-> TRUE,
          mux |-> mux, routes |-> routes, dt |-> Max(c.Read, c.Write)]
    ELSE LET p == PathProxy(c, i)
             m == MuxHandle(mux, c.Paths[i].Path)
         IN  IF p.err # None THEN NilHandler(p.err, FALSE)
             ELSE IF m.panic THEN NilHandler(None, TRUE)
             ELSE BuildPaths(c, i + 1, m, Append(routes, p.proxy))

\* NewSiteHandler(logger, cfg)
NewSiteHandler(c) ==
    IF Len(c.Paths) > 0 THEN BuildPaths(c, 1, NewServeMux, <<>>)
    ELSE IF Len(c.Upstreams) > 0
    THEN LET r == NewLoadBalancer(c.Upstreams, AlgorithmOr(c.Algorithm))
         IN  IF r.err # None THEN NilHandler(r.err, FALSE)
             ELSE [nil |-> FALSE, err |-> None, panic |-> FALSE, paths |-> FALSE,
                   mux |-> NewServeMux,
                   routes |-> <<NewLoadBalancedProxy(r.lb, c.Headers, {})>>,
                   dt |-> Max(c.Read, c.Write)]
    ELSE IF c.Upstream # ""
    THEN LET target == ParseURL(c.Upstream)
         IN  IF target.err THEN NilHandler("invalid upstream", FALSE)
             ELSE [nil |-> FALSE, err |-> None, panic |-> FALSE, paths |-> FALSE,
                   mux |-> NewServeMux,
                   routes |-> <<NewSingleHostReverseProxy(target, c.Headers, {})>>,
                   dt |-> Max(c.Read, c.Write)]
    ELSE NilHandler("no upstream or upstreams configured", FALSE)

(***************************************************************************)
(* One request through a site handler:                                     *)
(*   loggingHandler -> (mux ->) http.TimeoutHandler -> proxy -> backend    *)
(***************************************************************************)
\* the requests in flight on the site
Requests == {"r1"}
ReqPaths == {"/api/items", "/health", "/api", "//health"}
ReqQueries == {"", "q=2"}
InboundHeaders == {<<"X-Site", "client">>}

\* what a backend that is reached answers
UpstreamResponses ==
    {[status |-> 200, body |-> "Hello from upstream",
      headers |-> {<<"Set-Cookie", <<"a=1", "b=2">>>>, <<"Keep-Alive", <<"timeout=5">>>>}],
     [status |-> 500, body |-> "Internal Server Error",
      headers |-> {<<"Content-Type", <<"text/plain">>>>}]}

\* http.Header: a set of <<name, values>> with one entry per name
HeaderNames(h) == {e[1] : e \in h}
HeaderValues(h, k) == IF k \in HeaderNames(h) THEN (CHOOSE e \in h : e[1] = k)[2] ELSE <<>>

\* h.Set(k, v) for every header of src (each with one value)
HeaderSetAll(dst, src) == {e \in dst : e[1] \notin HeaderNames(src)} \cup src

\* a copy with Header.Set in place of Header.Add: of the values of a name
\* the last one stays
CopyHeader_Set(dst, src) ==
    {e \in dst : e[1] \notin HeaderNames(src)}
        \cup {<<e[1], <<e[2][Len(e[2])]>>>> : e \in src}

\* for key, values := range src { for _, value := range values
\* { dst.Add(key, value) } }
CopyHeader(dst, src) ==
    {<<k, HeaderValues(dst, k) \o HeaderValues(src, k)>> :
        k \in HeaderNames(dst) \cup HeaderNames(src)}

\* net/http/httputil hopHeaders
HopHeaders ==
    {"Connection", "Proxy-Connection", "Keep-Alive", "Proxy-Authenticate",
     "Proxy-Authorization", "Te", "Trailer", "Transfer-Encoding", "Upgrade"}

\* httputil removeHopByHopHeaders (no response of the model names further
\* headers in Connection)
RemoveHopByHopHeaders(h) == {e \in h : e[1] \notin HopHeaders}

\* the headers http.Error sets
ErrorHeaders ==
    {<<"Content-Type", <<"text/plain; charset=utf-8">>>>,
     <<"X-Content-Type-Options", <<"nosniff">>>>}

\* the headers http.Redirect sets for a GET
RedirectHeaders(location) ==
    {<<"Location", <<location>>>>, <<"Content-Type", <<"text/html; charset=utf-8">>>>}

NoOut == [scheme |-> "", host |-> "", path |-> "", query |-> "", headers |-> {}]
NoUp ==
    [kind |-> "none", status |-> 0, body |-> "", headers |-> {}, err |-> "",
     before |-> FALSE]
NoClient == [n |-> 0, status |-> 0, body |-> "", headers |-> {}]

\* http.timeoutWriter: the buffer between the proxy and the client
NewTimeoutWriter ==
    [wroteHeader |-> FALSE, code |-> 0, body |-> "", h |-> {}, timedOut |-> FALSE]

\* tw.WriteHeader(code): nothing after the timeout, nothing the second time
TWWriteHeader(tw, code) ==
    IF tw.timedOut \/ tw.wroteHeader THEN tw
    ELSE [tw EXCEPT !.wroteHeader = TRUE, !.code = code]

\* tw.Write(p): ErrHandlerTimeout after the timeout, else an implicit 200 and
\* the bytes go to the buffer
TWWrite(tw, p) ==
    IF tw.timedOut THEN tw
    ELSE LET t == TWWriteHeader(tw, 200)
         IN  [t EXCEPT !.body = t.body \o p]

\* http.Error(w, msg, code)
HTTPError(tw, msg, code) ==
    TWWrite(TWWriteHeader([tw EXCEPT !.h = HeaderSetAll(@, ErrorHeaders)], code),
            msg \o "\n")

\* the ErrorHandler of a httputil.ReverseProxy that sets none:
\* rw.WriteHeader(http.StatusBadGateway)
DefaultErrorHandler(tw) == TWWriteHeader(tw, 502)

\* a guard that answers 200 whatever the handler's status was
DoneResponse_Always200(tw) == [status |-> 200, body |-> tw.body]

\* the done branch of TimeoutHandler: the buffered status (200 when the
\* handler wrote none) and the buffered body
DoneResponse(tw) ==
    [status |-> IF tw.wroteHeader THEN tw.code ELSE 200, body |-> tw.body]

\* the timeout branch: w.WriteHeader(503); io.WriteString(w, "Request timeout")
TimeoutResponse == [status |-> 503, body |-> "Request timeout"]

\* http.Redirect(w, r, url, 301) for a GET
RedirectResponse(location) ==
    [status |-> 301, body |-> "<a href=\"" \o location \o "\">Moved Permanently</a>.\n\n"]

\* one response written to the client's connection
Deliver(client, resp) ==
    [client EXCEPT !.n = @ + 1, !.status = resp.status, !.body = resp.body]

\* the headers that go out with it
WithHeaders(client, h) == [client EXCEPT !.headers = h]

\* a guard that still takes the completion of a handler it has given up on
WakeOnDone_AfterReturn(st) ==
    IF st \in {"blocked", "finished"} THEN "wake_done" ELSE st

\* close(done): a guard blocked in the select wakes in the done case
WakeOnDone(st) == IF st = "blocked" THEN "wake_done" ELSE st

\* the RawQuery of the load-balanced proxies
LBQuery(targetQuery, reqQuery) ==
    IF targetQuery = "" \/ reqQuery = "" THEN targetQuery
    ELSE targetQuery \o "&" \o reqQuery

\* the RawQuery of the Director of httputil.NewSingleHostReverseProxy
SingleQuery(targetQuery, reqQuery) ==
    IF targetQuery = "" \/ reqQuery = "" THEN targetQuery \o reqQuery
    ELSE targetQuery \o "&" \o reqQuery

\* the outbound request a proxy makes of an inbound one for a target
Outbound(proxy, target, path, query) ==
    [scheme |-> target.Scheme,
     host |-> target.Host,
     path |-> path,
     query |-> IF proxy.kind = "lb" THEN LBQuery(target.RawQuery, query)
               ELSE SingleQuery(target.RawQuery, query),
     headers |-> SetHeaders(SetHeaders(InboundHeaders, proxy.siteHeaders),
                            proxy.routeHeaders)]

\* logger.Info / logger.Error: the message of the record goes to the records
\* the site's logger has written for the request, in the order written
Emit(q, msg) == [q EXCEPT !.log = Append(@, msg)]

\* the records the proxy of a route writes around transport.RoundTrip: the
\* load-balanced proxies one before the call and one after it, the
\* httputil.ReverseProxy of a single-upstream route none through the logger
\* (its ErrorLog is not set)
LogBeforeCall(proxy, q) ==
    IF proxy.kind = "lb" THEN Emit(q, "Load balanced request") ELSE q
LogCallFailed(proxy, q) ==
    IF proxy.kind = "lb" THEN Emit(q, "Upstream error") ELSE q
LogCallAnswered(proxy, q) ==
    IF proxy.kind = "lb" THEN Emit(q, "Upstream response") ELSE q
\* if _, err := io.Copy(w, resp.Body); err != nil { logger.Error(...) }
LogCopyFailed(proxy, q) ==
    IF proxy.kind = "lb" THEN Emit(q, "Failed to copy response body") ELSE q

\* a request that has not arrived.  st is the guard's goroutine (new,
\* spawned, blocked, wake_done, wake_timeout, finished), hpc the proxy's
\* (none, start, roundtrip, respond, copy, failed, done); xst/xup and
\* dst/dexp remember what the other side was doing when the deadline passed
\* and when the proxy returned.
NewRequest ==
    [st |-> "new", hpc |-> "none", path |-> "", query |-> "", route |-> 0,
     expired |-> FALSE, sent |-> FALSE, picks |-> 0, nout |-> 0,
     target |-> NoURL, out |-> NoOut, up |-> NoUp,
     tw |-> NewTimeoutWriter, client |-> NoClient, refused |-> FALSE, copied |-> 0,
     xst |-> "", xup |-> "", dst |-> "", dexp |-> FALSE, sel |-> "",
     log |-> <<>>]

SrvIdle ==
    /\ cfg = NoConfig
    /\ handler = NoHandler
    /\ configs = {}
    /\ rq = [r \in Requests |-> NewRequest]

InitSrvOnly ==
    /\ cfg \in SiteConfigs
    /\ handler = NoHandler
    /\ configs = {}
    /\ rq = [r \in Requests |-> NewRequest]

\* main: handler, err := site.NewSiteHandler(logger, cfg); on an error the
\* site is skipped, else configs[domain] = handler.Handler.  A panic of
\* mux.Handle ends the process.
Build ==
    /\ handler = NoHandler
    /\ handler' = NewSiteHandler(cfg)
    /\ configs' = IF handler'.nil THEN configs ELSE configs \cup {cfg.Domain}
    /\ UNCHANGED <<cfg, rq>>
    /\ UNCHANGED <<hostVars, lbVars, muxVars, startVars>>

\* the handler the request is for: the mux of a site with paths, the one
\* proxy of a site without
RouteFor(h, host, path) ==
    IF h.paths THEN MuxServe(h.mux, [host |-> host, method |-> "GET", path |-> path])
    ELSE [kind |-> "route", route |-> 1, pattern |-> "", location |-> ""]

\* loggingHandler and what it wraps, up to the select of TimeoutHandler:
\* the mux answers 404 or 301 itself; else the context gets its deadline
\* (already over when the duration is 0) and the proxy gets its goroutine
ArriveWith(r, paths, queries) ==
    /\ ~handler.nil
    /\ rq[r].st = "new"
    /\ \E p \in paths, q \in queries :
           LET m == RouteFor(handler, cfg.Domain, p)
               arrived == Emit([rq[r] EXCEPT !.path = p, !.query = q], "Request")
               answered == Emit(arrived, "Response")
           IN  rq' = [rq EXCEPT ![r] =
                   CASE m.kind = "route" ->
                            [arrived EXCEPT !.st = "spawned", !.hpc = "start",
                                            !.route = m.route,
                                            !.expired = (handler.dt = 0),
                                            !.xst = IF handler.dt = 0 THEN "new" ELSE "",
                                            !.xup = IF handler.dt = 0 THEN "none" ELSE ""]
                     [] m.kind = "notfound" ->
                            [answered EXCEPT !.st = "finished",
                                            !.client = WithHeaders(Deliver(@, NotFoundResponse),
                                                                  ErrorHeaders)]
                     [] OTHER ->
                            [answered EXCEPT !.st = "finished",
                                            !.client = WithHeaders(
                                                Deliver(@, RedirectResponse(m.location)),
                                                RedirectHeaders(m.location))]]
    /\ UNCHANGED <<cfg, handler, configs>>
    /\ UNCHANGED <<hostVars, lbVars, muxVars, startVars>>

Arrive(r) == ArriveWith(r, ReqPaths, ReqQueries)

\* two requests in flight at once on one site
Siblings == {"r1", "r2"}
SiblingPaths == {"/api/items", "/static/css"}
SiblingQueries == {""}

ArriveSibling(r) == ArriveWith(r, SiblingPaths, SiblingQueries)

\* two requests at once on the routes of a site whose routes are balanced
\* (over lists of their own, or each over the site's list)
RouteSiblingPaths == {"/api/items", "/health"}
ArriveOnRoutes(r) == ArriveWith(r, RouteSiblingPaths, SiblingQueries)

\* one cursor for all the balanced routes of a site
Advance_Shared(routes, i, l) ==
    [j \in DOMAIN routes |->
        IF routes[j].kind = "lb"
        THEN [routes[j] EXCEPT !.lb.currentIndex = l.currentIndex]
        ELSE routes[j]]

\* lb.Next() of route i has moved lb.currentIndex: lb is the pathLb made in
\* the round of the loop that built the route, held by that route's closure
Advance(routes, i, l) == [routes EXCEPT ![i].lb = l]

\* the proxy's goroutine up to transport.RoundTrip: the load-balanced
\* proxies take lb.Next() (the route's own balancer), the single-upstream
\* proxy has its target; the outbound request is made and handed to the
\* transport, which sends nothing on a context that is already done
Forward(r) ==
    /\ rq[r].hpc = "start"
    /\ LET i == rq[r].route
           proxy == handler.routes[i]
       IN  IF proxy.kind = "lb"
           THEN \E o \in NextSwitch(proxy.lb) :
                    LET target == proxy.lb.upstreams[o.pos]
                    IN  /\ handler' = [handler EXCEPT !.routes = Advance(@, i, o.lb)]
                        /\ rq' = [rq EXCEPT ![r] = LogBeforeCall(proxy,
                                    [@ EXCEPT !.hpc = "roundtrip",
                                              !.picks = @ + 1,
                                              !.nout = @ + 1,
                                              !.target = target,
                                              !.sent = ~rq[r].expired,
                                              !.out = Outbound(proxy, target,
                                                          rq[r].path, rq[r].query)])]
           ELSE /\ handler' = handler
                /\ rq' = [rq EXCEPT ![r] = LogBeforeCall(proxy,
                            [@ EXCEPT !.hpc = "roundtrip",
                                      !.nout = @ + 1,
                                      !.target = proxy.target,
                                      !.sent = ~rq[r].expired,
                                      !.out = Outbound(proxy, proxy.target,
                                                  rq[r].path, rq[r].query)])]
    /\ UNCHANGED <<cfg, configs>>
    /\ UNCHANGED <<hostVars, lbVars, muxVars, startVars>>

\* what transport.RoundTrip can return for the request
RoundTripResults(q) ==
    LET failure(e) == [kind |-> "err", status |-> 0, body |-> "", headers |-> {}, err |-> e,
                       before |-> ~q.expired]
        answers == {[kind |-> "resp", status |-> a.status, body |-> a.body,
                     headers |-> a.headers, err |-> "",
                     before |-> ~q.expired] : a \in UpstreamResponses}
    IN  IF q.out.scheme = "" THEN {failure("unsupported protocol scheme")}
        ELSE IF ~q.sent THEN {failure("context deadline exceeded")}
        ELSE answers \cup {failure("connection refused")}
                 \cup (IF q.expired THEN {failure("context deadline exceeded")} ELSE {})

\* a proxy that starts over when the outbound call fails
AfterRoundTrip_Retry(res) == IF res.kind = "err" THEN "start" ELSE "respond"

\* where the proxy goes on after RoundTrip: the error branch, which answers
\* and returns, or the relay of the response
AfterRoundTrip(res) == IF res.kind = "err" THEN "failed" ELSE "respond"

\* resp, err := transport.RoundTrip(outReq)
RoundTripReturn(r) ==
    /\ rq[r].hpc = "roundtrip"
    /\ \E res \in RoundTripResults(rq[r]) :
           rq' = [rq EXCEPT ![r].up = res,
                            ![r].hpc = AfterRoundTrip(res)]
    /\ UNCHANGED <<cfg, handler, configs>>
    /\ UNCHANGED <<hostVars, lbVars, muxVars, startVars>>

\* the proxy returns: done is closed
Returned(q) ==
    [q EXCEPT !.hpc = "done", !.st = WakeOnDone(q.st),
              !.dst = q.st, !.dexp = q.expired]

\* err != nil: the load-balanced proxies answer http.Error(w, "Upstream
\* error", 502), the single-upstream proxy runs its default ErrorHandler
WriteError(r) ==
    /\ rq[r].hpc = "failed"
    /\ LET proxy == handler.routes[rq[r].route]
           tw == IF proxy.kind = "lb"
                 THEN HTTPError(rq[r].tw, "Upstream error", 502)
                 ELSE DefaultErrorHandler(rq[r].tw)
       IN  rq' = [rq EXCEPT ![r] =
                     Returned(LogCallFailed(proxy,
                                  [rq[r] EXCEPT !.tw = tw,
                                                !.refused = @ \/ rq[r].tw.timedOut]))]
    /\ UNCHANGED <<cfg, handler, configs>>
    /\ UNCHANGED <<hostVars, lbVars, muxVars, startVars>>

\* the response headers a proxy puts into w.Header(): the load-balanced
\* proxies add every value of every header, the ReverseProxy of a
\* single-upstream route removes the hop-by-hop headers first
RelayedHeaders(proxy, h, respHeaders) ==
    IF proxy.kind = "lb" THEN CopyHeader(h, respHeaders)
    ELSE CopyHeader(h, RemoveHopByHopHeaders(respHeaders))

\* err == nil: the response headers, then w.WriteHeader(resp.StatusCode)
RelayHeader(r) ==
    /\ rq[r].hpc = "respond"
    /\ LET proxy == handler.routes[rq[r].route]
       IN  rq' = [rq EXCEPT ![r] = LogCallAnswered(proxy,
                     [@ EXCEPT !.tw = TWWriteHeader(
                                          [@ EXCEPT !.h = RelayedHeaders(proxy, @,
                                                              rq[r].up.headers)],
                                          rq[r].up.status),
                               !.refused = @ \/ rq[r].tw.timedOut,
                               !.hpc = "copy"])]
    /\ UNCHANGED <<cfg, handler, configs>>
    /\ UNCHANGED <<hostVars, lbVars, muxVars, startVars>>

\* the pieces in which io.Copy reads the body of a response: two here
Chunks(body) ==
    <<SubSeq(body, 1, Len(body) \div 2), Drop(body, Len(body) \div 2)>>

\* io.Copy(w, resp.Body), one read and one write at a time: it ends with the
\* body or with the first write the buffer refuses, and the proxy returns
CopyBody(r) ==
    /\ rq[r].hpc = "copy"
    /\ LET chunks == Chunks(rq[r].up.body)
           n == rq[r].copied + 1
           wrote == [rq[r] EXCEPT !.tw = TWWrite(@, chunks[n]),
                                  !.copied = IF rq[r].tw.timedOut THEN @ ELSE n,
                                  !.refused = @ \/ rq[r].tw.timedOut]
           proxy == handler.routes[rq[r].route]
       IN  rq' = [rq EXCEPT ![r] =
                     IF rq[r].tw.timedOut THEN Returned(LogCopyFailed(proxy, wrote))
                     ELSE IF n = Len(chunks) THEN Returned(wrote)
                     ELSE wrote]
    /\ UNCHANGED <<cfg, handler, configs>>
    /\ UNCHANGED <<hostVars, lbVars, muxVars, startVars>>

\* one context and one timer for all requests
Cancelled_All(r) == Siblings

\* the requests whose context the timer of request r ends: TimeoutHandler
\* derives a context per request (context.WithTimeout(r.Context(), dt)) and
\* the proxy sends the outbound request under it (r.Clone(r.Context()))
Cancelled(r) == {r}

\* ctx.Done() of a request is closed: a guard blocked in the select wakes in
\* the timeout case
Expire(q) ==
    [q EXCEPT !.expired = TRUE,
              !.st = IF @ = "blocked" THEN "wake_timeout" ELSE @,
              !.xst = q.st,
              !.xup = q.up.kind]

\* the deadline of the request's context passes
Deadline(r) ==
    /\ rq[r].st \in {"spawned", "blocked"}
    /\ ~rq[r].expired
    /\ rq' = [s \in DOMAIN rq |->
                 IF s \in Cancelled(r) /\ rq[s].st \in {"spawned", "blocked"}
                        /\ ~rq[s].expired
                 THEN Expire(rq[s]) ELSE rq[s]]
    /\ UNCHANGED <<cfg, handler, configs>>
    /\ UNCHANGED <<hostVars, lbVars, muxVars, startVars>>

\* the cases of the guard's select that can proceed
Ready(q) ==
    (IF q.hpc = "done" THEN {"wake_done"} ELSE {})
        \cup (IF q.expired THEN {"wake_timeout"} ELSE {})

\* the guard reaches select { case <-done: ... case <-ctx.Done(): ... }:
\* it blocks when neither case can proceed, else one that can is taken
Select(r) ==
    /\ rq[r].st = "spawned"
    /\ IF Ready(rq[r]) = {}
       THEN rq' = [rq EXCEPT ![r].st = "blocked"]
       ELSE \E s \in Ready(rq[r]) : rq' = [rq EXCEPT ![r].st = s]
    /\ UNCHANGED <<cfg, handler, configs>>
    /\ UNCHANGED <<hostVars, lbVars, muxVars, startVars>>

\* case <-done: the buffered headers, status and body go to the client; the
\* guard returns and loggingHandler writes its "Response" record
GuardDone(r) ==
    /\ rq[r].st = "wake_done"
    /\ rq' = [rq EXCEPT ![r].client = WithHeaders(Deliver(@, DoneResponse(rq[r].tw)),
                                                   rq[r].tw.h),
                        ![r].sel = "done",
                        ![r].st = "finished",
                        ![r].log = Append(@, "Response")]
    /\ UNCHANGED <<cfg, handler, configs>>
    /\ UNCHANGED <<hostVars, lbVars, muxVars, startVars>>

\* case <-ctx.Done(): 503 and the message go to the client, the buffer is
\* closed for the proxy (tw.err = ErrHandlerTimeout); the guard returns and
\* loggingHandler writes its "Response" record
GuardTimeout(r) ==
    /\ rq[r].st = "wake_timeout"
    /\ rq' = [rq EXCEPT ![r].client = Deliver(@, TimeoutResponse),
                        ![r].tw.timedOut = TRUE,
                        ![r].sel = "timeout",
                        ![r].st = "finished",
                        ![r].log = Append(@, "Response")]
    /\ UNCHANGED <<cfg, handler, configs>>
    /\ UNCHANGED <<hostVars, lbVars, muxVars, startVars>>

(***************************************************************************)
(* Start-up: config.LoadConfigs(dir)                                       *)
(***************************************************************************)
\* a YAML document as yaml.Unmarshal sees it: well-formed or not, and its
\* top-level keys with what matters of their values
SiteDoc(domain) == [valid |-> TRUE, keys |-> {<<"domain", domain>>, <<"proxy", "upstream">>}]
SettingsDoc == [valid |-> TRUE, keys |-> {<<"server", "listen">>}]
NoDomainDoc == [valid |-> TRUE, keys |-> {<<"proxy", "upstream">>}]
InvalidDoc == [valid |-> FALSE, keys |-> {}]

\* an entry of the directory: a sub-directory, or a file (that os.ReadFile
\* can read or not) with its content
DirEntry(name) == [name |-> name, isDir |-> TRUE, readable |-> TRUE, doc |-> InvalidDoc]
FileEntry(name, doc) == [name |-> name, isDir |-> FALSE, readable |-> TRUE, doc |-> doc]
Unreadable(name) == [name |-> name, isDir |-> FALSE, readable |-> FALSE, doc |-> InvalidDoc]

\* the names a configuration directory can hold, in the order of os.ReadDir
\* (sorted by filename), and what can be under each name
FileNames == <<"archive.yml", "example.com.yml", "notes.txt", "settings.yml", "test.local.yml">>
EntriesFor(name) ==
    CASE name = "archive.yml" -> {DirEntry(name)}
      [] name = "example.com.yml" ->
             {FileEntry(name, SiteDoc("example.com")), FileEntry(name, InvalidDoc),
              FileEntry(name, NoDomainDoc), Unreadable(name)}
      [] name = "notes.txt" -> {FileEntry(name, InvalidDoc)}
      [] name = "settings.yml" -> {FileEntry(name, SettingsDoc)}
      [] OTHER ->
             {FileEntry(name, SiteDoc("test.local")), FileEntry(name, SiteDoc("example.com")),
              FileEntry(name, NoDomainDoc)}

\* the directories: each name absent, or present with one of its entries
RECURSIVE DirsFrom(_)
DirsFrom(i) ==
    IF i > Len(FileNames) THEN {<<>>}
    ELSE LET rest == DirsFrom(i + 1)
         IN  rest \cup {<<e>> \o d : e \in EntriesFor(FileNames[i]), d \in rest}
Directories == DirsFrom(1)

\* yaml.Unmarshal(data, &cfg) into a global.SiteConfig: an error for a
\* document that is not well-formed; else the fields the document names are
\* set, keys the struct does not have are passed over
Unmarshal(doc) ==
    IF ~doc.valid THEN [err |-> TRUE, Domain |-> ""]
    ELSE [err |-> FALSE,
          Domain |-> IF \E k \in doc.keys : k[1] = "domain"
                     THEN (CHOOSE k \in doc.keys : k[1] = "domain")[2] ELSE ""]

\* sites[cfg.Domain] = &cfg: a map is a set of entries, one per key
MapPut(m, domain, file) ==
    {e \in m : e.Domain # domain} \cup {[Domain |-> domain, File |-> file]}

\* a loop that passes over the files it cannot use
LoadStep_SkipBad(l, f) ==
    IF f.isDir \/ ~HasSuffix(f.name, ".yml") \/ ~f.readable \/ Unmarshal(f.doc).err
           \/ Unmarshal(f.doc).Domain = ""
    THEN [l EXCEPT !.i = @ + 1]
    ELSE [l EXCEPT !.i = @ + 1, !.sites = MapPut(@, Unmarshal(f.doc).Domain, f.name)]

\* one round of the loop over files: directories and names without ".yml"
\* are passed over; a file that cannot be read, does not parse or has no
\* domain ends LoadConfigs with (nil, err); else the site is entered
LoadStep(l, f) ==
    IF f.isDir \/ ~HasSuffix(f.name, ".yml") THEN [l EXCEPT !.i = @ + 1]
    ELSE IF ~f.readable
    THEN [l EXCEPT !.pc = "returned", !.err = "read " \o f.name, !.nil = TRUE, !.sites = {}]
    ELSE IF Unmarshal(f.doc).err
    THEN [l EXCEPT !.pc = "returned", !.err = "yaml: " \o f.name, !.nil = TRUE, !.sites = {}]
    ELSE IF Unmarshal(f.doc).Domain = ""
    THEN [l EXCEPT !.pc = "returned", !.err = "domain missing in " \o f.name,
                   !.nil = TRUE, !.sites = {}]
    ELSE [l EXCEPT !.i = @ + 1, !.sites = MapPut(@, Unmarshal(f.doc).Domain, f.name)]

\* LoadConfigs has not been called
NotLoaded == [pc |-> "idle", i |-> 0, sites |-> {}, nil |-> TRUE, err |-> None]

\* main has not run
NotStarted == [pc |-> "idle", sites |-> {}, todo |-> {}]

LoadIdle ==
    /\ files = <<>>
    /\ load = NotLoaded
    /\ main = NotStarted

InitLoadOnly ==
    /\ files \in Directories
    /\ load = NotLoaded
    /\ main = NotStarted

\* files, err := os.ReadDir(dir); sites := make(map[string]*global.SiteConfig)
ReadDir ==
    /\ load.pc = "idle"
    /\ load' = [load EXCEPT !.pc = "loop", !.i = 1, !.nil = FALSE]
    /\ UNCHANGED <<files, main>>
    /\ UNCHANGED <<hostVars, lbVars, muxVars, srvVars>>

\* for _, f := range files { ... }
LoadFile ==
    /\ load.pc = "loop"
    /\ load.i <= Len(files)
    /\ load' = LoadStep(load, files[load.i])
    /\ UNCHANGED <<files, main>>
    /\ UNCHANGED <<hostVars, lbVars, muxVars, srvVars>>

\* return sites, nil
LoadReturn ==
    /\ load.pc = "loop"
    /\ load.i > Len(files)
    /\ load' = [load EXCEPT !.pc = "returned"]
    /\ UNCHANGED <<files, main>>
    /\ UNCHANGED <<hostVars, lbVars, muxVars, srvVars>>

(***************************************************************************)
(* Start-up: main builds a handler per site and starts the router          *)
(***************************************************************************)
MaxSites == 2          \* most sites in the map LoadConfigs gives main

\* the maps LoadConfigs can give main: up to MaxSites sites, one per domain
SiteMaps ==
    {m \in SUBSET SiteShapes :
        /\ Cardinality(m) \in 1..MaxSites
        /\ \A a, b \in m : a.Domain = b.Domain => a = b}

\* the Host headers of the requests: every domain a site can have, bare and
\* with a port, and a host no site has
MainHosts ==
    {c.Domain \o p : c \in SiteShapes, p \in {"", ":8080"}} \cup {"unknown.com"}

InitMainOnly ==
    /\ \E m \in SiteMaps : main = [pc |-> "build", sites |-> m, todo |-> m]
    /\ cfg = NoConfig
    /\ handler = NoHandler
    /\ configs = {}
    /\ rq = [r \in Requests |-> NewRequest]
    /\ sites = {}
    /\ hostReq = NoHostReq
    /\ hostResp = NoHostResp
    /\ files = <<>>
    /\ load = NotLoaded

\* one round of "for domain, cfg := range sites" (a map: any order):
\* NewSiteHandler; on an error the site is logged and skipped (continue),
\* else configs[domain] = handler.Handler.  A panic of mux.Handle inside
\* NewSiteHandler ends the process.
BuildSite ==
    /\ main.pc = "build"
    /\ \E c \in main.todo :
           LET h == NewSiteHandler(c)
           IN  /\ cfg' = c
               /\ handler' = h
               /\ configs' = IF h.nil THEN configs ELSE configs \cup {c.Domain}
               /\ main' = IF h.panic THEN [main EXCEPT !.pc = "dead"]
                          ELSE [main EXCEPT !.todo = @ \ {c}]
    /\ UNCHANGED <<rq, files, load>>
    /\ UNCHANGED <<hostVars, lbVars, muxVars>>

\* router := host.Router(configs), and the servers start
StartRouter ==
    /\ main.pc = "build"
    /\ main.todo = {}
    /\ sites' = configs
    /\ main' = [main EXCEPT !.pc = "serving"]
    /\ UNCHANGED <<hostReq, hostResp, files, load>>
    /\ UNCHANGED <<lbVars, muxVars, srvVars>>

\* a request comes to the router of the running process
ServeRouted ==
    /\ main.pc = "serving"
    /\ \E h \in MainHosts :
           LET r == [host |-> h, method |-> "GET", path |-> "/"]
           IN  /\ hostReq' = r
               /\ hostResp' = HostRouter(sites, r)
    /\ UNCHANGED <<sites, startVars>>
    /\ UNCHANGED <<lbVars, muxVars, srvVars>>

(***************************************************************************)
(* Claims about the host router (checked under SpecHost)                   *)
(***************************************************************************)
\* a Host header h names the configured domain d: h is d, or d and a port
HostNames(h, d) == h = d \/ HasPrefix(h, d \o ":")

\* C1: a request whose Host header (port stripped) is a key of the dispatch
\* table is delegated to that site's handler and the client gets exactly that
\* handler's status and body, never a router-made 404.
C1_HitIsDelegated ==
    hostResp.served =>
        \A d \in sites :
            HostNames(hostReq.host, d) =>
                /\ hostResp.delegated = d
                /\ hostResp.resp = SiteResponse(d)

\* C2: a request whose host matches no configured site (the empty table
\* included) gets 404 whatever its path and method, and no site handler runs.
C2_MissIs404 ==
    (hostResp.served /\ \A d \in sites : ~HostNames(hostReq.host, d)) =>
        /\ hostResp.resp.status = 404
        /\ hostResp.delegated = None

C2_Witness ==
    /\ hostResp.served
    /\ sites = {"example.com"}
    /\ hostReq = [host |-> "unknown.com:8080", method |-> "POST", path |-> "/path"]
    /\ hostResp.resp.status = 404

\* the ports a Host header of the model carries
Ports == {":8080", ":443"}

HostMiss == hostResp.served /\ ~hostResp.hit

\* C21 as stated: on a dispatch-table miss the router's response is 404 with
\* an empty body.
C21_MissBodyIsEmpty ==
    HostMiss => (hostResp.resp.status = 404 /\ hostResp.resp.body = "")

\* C21 amended: on a dispatch-table miss the router's response is 404 with
\* the body http.NotFound writes, the line "404 page not found".
C21_MissBodyIsNotFoundText ==
    HostMiss =>
        /\ hostResp.resp.status = 404
        /\ hostResp.resp.body = "404 page not found\n"
        /\ hostResp.delegated = None

C21_Witness ==
    /\ HostMiss
    /\ sites = {"test.local"}
    /\ hostReq.host = "unknown.com"
    /\ hostResp.resp.body = "404 page not found\n"

(***************************************************************************)
(* Claims about the load balancer (checked under SpecLB)                   *)
(***************************************************************************)
\* how often backend number i was returned among the first n calls
TimesReturned(i, n) == Cardinality({j \in 1..n : calls[j].pos = i})

\* C4: with round-robin, from a fresh balancer, the k-th call of Next returns
\* the backends in declaration order, cyclically: N calls return each backend
\* once, call N+1 returns the first again, k*N calls return each k times.
C4_RoundRobinSequential ==
    (~lb.nil /\ lb.algorithm = "round-robin") =>
        LET N == Len(lb.upstreams)
        IN  /\ \A k \in 1..Len(calls) :
                   calls[k].url = ParseURL(Backends[((k - 1) % N) + 1])
            /\ \A k \in 1..MaxCalls :
                   k * N <= Len(calls) =>
                       \A i \in 1..N : TimesReturned(i, k * N) = k

C4_Witness ==
    /\ ~lb.nil /\ lb.algorithm = "round-robin"
    /\ Len(lb.upstreams) = 3
    /\ Len(calls) = 4
    /\ calls[3].url.Host = "b3"
    /\ calls[4].url.Host = "b1"

\* the counter values handed out so far: returned calls and callers that
\* have left the switch
Picks == [k \in 1..Len(calls) |-> calls[k]]
PickedNow == {c \in Callers : lpc[c] = "picked"}

\* C5: concurrent callers of Next on one round-robin set never obtain the
\* same counter value, and when all have returned the cursor has advanced
\* by exactly the number of calls.
C5_RoundRobinConcurrent ==
    (~lb.nil /\ lb.algorithm = "round-robin") =>
        /\ \A i, j \in 1..Len(calls) : i # j => calls[i].index # calls[j].index
        /\ \A c \in PickedNow : \A i \in 1..Len(calls) : lret[c].index # calls[i].index
        /\ \A c, d \in PickedNow : c # d => lret[c].index # lret[d].index
        /\ (\A c \in Callers : lpc[c] = "idle") => lb.currentIndex = Len(calls)

C5_Witness ==
    /\ ~lb.nil /\ lb.algorithm = "round-robin"
    /\ \A c \in Callers : lpc[c] = "idle"
    /\ Len(calls) = MaxCalls
    /\ \A c \in Callers : \E i \in 1..Len(calls) : calls[i].caller = c
    /\ lb.currentIndex = MaxCalls


\* C16: for every algorithm identifier other than "round-robin" and
\* "random", the empty one included, Next does what round-robin does: call k
\* takes counter value k - 1 and returns backend ((k - 1) mod N) + 1 of the
\* declaration order, and the cursor has advanced by one per call.
C16_UnknownAlgorithmIsRoundRobin ==
    (~lb.nil /\ lb.algorithm \notin {"round-robin", "random"}) =>
        LET N == Len(lb.upstreams)
        IN  /\ \A k \in 1..Len(calls) :
                   /\ calls[k].index = k - 1
                   /\ calls[k].pos = ((k - 1) % N) + 1
                   /\ calls[k].url.Host = "b" \o ToString(calls[k].pos)
            /\ lb.currentIndex = Len(calls) + Cardinality(PickedNow)

C16_Witness ==
    /\ ~lb.nil /\ lb.algorithm = "least-conn"
    /\ Len(lb.upstreams) = 3
    /\ Len(calls) = 4
    /\ calls[3].url.Host = "b3"
    /\ calls[4].url.Host = "b1"
    /\ lb.currentIndex = 4

\* C20: given no upstream address, or a list with an address that does not
\* parse, NewLoadBalancer returns an error and no balancer, and Next is never
\* called; a balancer that is returned holds every address it was given, at
\* least one, so the divisor of the modulo in Next is never zero.
C20_EmptySetIsBuildError ==
    /\ (Len(lbArgs.upstreams) = 0
            \/ \E i \in 1..Len(lbArgs.upstreams) : lbArgs.upstreams[i] = "://bad") =>
           /\ lbArgs.err # None
           /\ lb.nil
           /\ calls = <<>> /\ \A c \in Callers : lpc[c] = "idle"
    /\ ~lb.nil =>
           /\ lbArgs.err = None
           /\ Len(lb.upstreams) = Len(lbArgs.upstreams)
           /\ Len(lb.upstreams) > 0

C20_Witness ==
    /\ lbArgs.upstreams = <<"http://b1", "://bad">>
    /\ lbArgs.err = "invalid upstream URL"
    /\ lb.nil
    /\ calls = <<>>

\* C27: round-robin stays cyclic when the cursor overflows: of two calls
\* that took consecutive counter values, the last value of the counter and 0
\* after it included, the second returned the successor in declaration order
\* of the backend the first returned, whatever the size of the set.
C27_CyclicAcrossWrap ==
    (~lb.nil /\ lb.algorithm # "random") =>
        \A i, j \in 1..Len(calls) :
            calls[j].index = (calls[i].index + 1) % CursorModulus =>
                calls[j].pos = (calls[i].pos % Len(lb.upstreams)) + 1

(***************************************************************************)
(* Claims about the path router (checked under SpecMux)                    *)
(***************************************************************************)
\* the routes whose prefix is a literal prefix of the request path
LiteralPrefixRoutes ==
    {i \in 1..Len(muxRoutes) : HasPrefix(muxReq.path, muxRoutes[i])}

\* C3 as stated: the route chosen is the one whose path prefix is the longest
\* literal prefix of the request path, whatever the order of declaration and
\* whether or not the prefix ends in '/'.
C3_LongestLiteralPrefix ==
    (muxRes.served /\ LiteralPrefixRoutes # {}) =>
        /\ muxRes.kind = "route"
        /\ muxRes.route \in LiteralPrefixRoutes
        /\ \A j \in LiteralPrefixRoutes :
               Len(muxRoutes[j]) <= Len(muxRoutes[muxRes.route])

\* the routes the mux can choose for the request path: a prefix that ends in
\* '/' and is a literal prefix of the path, or a prefix equal to the path
SubtreeOrExactRoutes ==
    {i \in 1..Len(muxRoutes) :
        \/ muxRoutes[i] = muxReq.path
        \/ LastChar(muxRoutes[i]) = "/" /\ HasPrefix(muxReq.path, muxRoutes[i])}

\* C3 amended: in a site whose prefixes all begin with '/', for a request the
\* mux does not answer with a redirect, the route chosen is the longest among
\* the prefixes that end in '/' and are a literal prefix of the path and the
\* prefix equal to the path; without any such route the mux answers 404. The
\* order of declaration plays no part.
C3_LongestSubtreePrefix ==
    (/\ muxRes.served
     /\ muxRes.kind # "redirect"
     /\ \A i \in 1..Len(muxRoutes) : FirstChar(muxRoutes[i]) = "/") =>
        IF SubtreeOrExactRoutes = {}
        THEN muxRes.kind = "notfound"
        ELSE /\ muxRes.kind = "route"
             /\ muxRes.route \in SubtreeOrExactRoutes
             /\ \A j \in SubtreeOrExactRoutes :
                    Len(muxRoutes[j]) <= Len(muxRoutes[muxRes.route])

C3_Witness ==
    /\ muxRes.served
    /\ muxRoutes = <<"/api/", "/api/v1/", "/">>
    /\ muxReq.path = "/api/v1/widgets"
    /\ muxRes.kind = "route"
    /\ muxRes.route = 2

(***************************************************************************)
(* Claims about one request through a site (checked under SpecServe)       *)
(***************************************************************************)
\* the request went through the timeout guard to a proxy and was answered
Answered(q) == q.st = "finished" /\ q.route # 0

\* C6 as stated: for every forwarded request, if the backend has produced
\* nothing when the deadline passes the client gets 503 "Request timeout",
\* and if the backend responds before the deadline the client gets the
\* backend's own status and body.
C6_TimeoutOutcome ==
    \A r \in Requests :
        Answered(rq[r]) =>
            /\ (rq[r].xst # "" /\ rq[r].xup = "none") =>
                   /\ rq[r].client.status = TimeoutResponse.status
                   /\ rq[r].client.body = TimeoutResponse.body
            /\ (rq[r].up.kind = "resp" /\ rq[r].up.before) =>
                   /\ rq[r].client.status = rq[r].up.status
                   /\ rq[r].client.body = rq[r].up.body

\* C6 amended: for every forwarded request, if the deadline passes while the
\* guard is waiting for the proxy (which has not returned), the client gets
\* 503 "Request timeout"; if the proxy returns from relaying the backend's
\* response while the guard is waiting and the deadline has not passed, the
\* client gets the backend's own status and body.
C6_GuardOutcome ==
    \A r \in Requests :
        Answered(rq[r]) =>
            /\ rq[r].xst = "blocked" =>
                   /\ rq[r].client.status = TimeoutResponse.status
                   /\ rq[r].client.body = TimeoutResponse.body
            /\ (rq[r].dst = "blocked" /\ ~rq[r].dexp /\ rq[r].up.kind = "resp") =>
                   /\ rq[r].client.status = rq[r].up.status
                   /\ rq[r].client.body = rq[r].up.body

C6_Witness ==
    \E r \in Requests :
        /\ Answered(rq[r])
        /\ cfg.Read = 1 /\ cfg.Write = 2
        /\ rq[r].dst = "blocked" /\ ~rq[r].dexp
        /\ rq[r].up.kind = "resp" /\ rq[r].up.status = 500
        /\ rq[r].client.status = 500
        /\ rq[r].client.body = "Internal Server Error"

\* C7: under every interleaving of the deadline with the completion or the
\* failure of the upstream call, at most one response is written to the
\* client, an answered request has exactly one, and once the 503 is written
\* the client's response stays the 503 whatever the abandoned proxy writes.
C7_SingleFinalResponse ==
    \A r \in Requests :
        /\ rq[r].client.n <= 1
        /\ rq[r].st = "finished" => rq[r].client.n = 1
        /\ rq[r].sel = "timeout" => rq[r].client = Deliver(NoClient, TimeoutResponse)

C7_Witness ==
    \E r \in Requests :
        /\ rq[r].st = "finished" /\ rq[r].sel = "timeout"
        /\ rq[r].hpc = "done" /\ rq[r].up.kind = "resp"
        /\ rq[r].refused
        /\ rq[r].client = Deliver(NoClient, TimeoutResponse)

\* C8: on every kind of route, when the outbound call fails at the transport
\* (connection refused) and the proxy's answer is the one delivered, the
\* client gets 502 with the body "Upstream error" (http.Error ends the body
\* with a newline).
C8_UnreachableIsUpstreamError ==
    \A r \in Requests :
        (/\ Answered(rq[r])
         /\ rq[r].sel = "done"
         /\ rq[r].up.kind = "err" /\ rq[r].up.err = "connection refused") =>
            /\ rq[r].client.status = 502
            /\ rq[r].client.body \in {"Upstream error", "Upstream error\n"}

\* C9: the outbound request carries the inbound path; its query is the
\* inbound query when the backend address has no base query, and the base
\* query, '&' and the inbound query when both are non-empty.
C9_QueryAndPathPreserved ==
    \A r \in Requests :
        rq[r].nout > 0 =>
            /\ rq[r].out.path = rq[r].path
            /\ rq[r].target.RawQuery = "" => rq[r].out.query = rq[r].query
            /\ (rq[r].target.RawQuery # "" /\ rq[r].query # "") =>
                   rq[r].out.query = rq[r].target.RawQuery \o "&" \o rq[r].query

\* the header injections declared on the route a request matched (none on a
\* site without paths)
MatchedRouteHeaders(q) ==
    IF Len(cfg.Paths) > 0 THEN cfg.Paths[q.route].Headers ELSE {}

\* C11: on every forwarded request the outbound request carries every header
\* of the matched route with the route's value, and every site-level header
\* whose name the matched route does not declare with the site's value; for
\* a name both declare it carries the route's value only.
C11_RouteOverridesSite ==
    \A r \in Requests :
        rq[r].nout > 0 =>
            LET routeH == MatchedRouteHeaders(rq[r])
            IN  /\ \A h \in routeH : h \in rq[r].out.headers
                /\ \A h \in cfg.Headers :
                       (\A g \in routeH : g[1] # h[1]) => h \in rq[r].out.headers
                /\ \A h \in rq[r].out.headers :
                       \A g \in routeH : g[1] = h[1] => g[2] = h[2]

\* C25: on a site with several routes, the headers of a forwarded request
\* that come from neither the client nor the site are exactly the headers
\* declared on the route the request matched: all of them are there, and
\* none of another route.
C25_HeadersOfMatchedRoute ==
    \A r \in Requests :
        (rq[r].nout > 0 /\ Len(cfg.Paths) > 1) =>
            LET mine == cfg.Paths[rq[r].route].Headers
            IN  /\ mine \subseteq rq[r].out.headers
                /\ rq[r].out.headers \ (InboundHeaders \cup cfg.Headers) \subseteq mine

\* C26: a request matched to a route that declares a single upstream address
\* and no upstream list goes out to that address, whether or not the site
\* declares an upstream list.
C26_RouteUpstreamHonoured ==
    \A r \in Requests :
        (/\ rq[r].nout > 0 /\ Len(cfg.Paths) > 0
         /\ cfg.Paths[rq[r].route].Upstream # ""
         /\ Len(cfg.Paths[rq[r].route].Upstreams) = 0) =>
            /\ rq[r].target = ParseURL(cfg.Paths[rq[r].route].Upstream)
            /\ rq[r].out.host = ParseURL(cfg.Paths[rq[r].route].Upstream).Host

\* no route prefix of the site is a literal prefix of the path, and the site
\* has no '/' route
PathMiss(q) ==
    /\ Len(cfg.Paths) > 0
    /\ q.st # "new"
    /\ \A i \in 1..Len(cfg.Paths) :
           /\ ~HasPrefix(q.path, cfg.Paths[i].Path)
           /\ cfg.Paths[i].Path # "/"

\* the client got 404 and the request never reached a proxy
NotFoundNoBackend(q) ==
    /\ q.client.n = 1 /\ q.client.status = 404
    /\ q.hpc = "none" /\ q.picks = 0 /\ q.nout = 0

\* C13 as stated: on a site with path routes, a request whose path no route
\* prefix matches, the site having no '/' route, gets 404 and no backend is
\* selected or contacted.
C13_PathMissIs404 ==
    \A r \in Requests : PathMiss(rq[r]) => NotFoundNoBackend(rq[r])

\* C13 amended: the same for a request path in clean form (no empty
\* segment) that is not a route prefix less its final '/', on a site whose
\* prefixes all begin with '/'; no cursor of the site has moved.
C13_CleanPathMissIs404 ==
    \A r \in Requests :
        (/\ PathMiss(rq[r])
         /\ Index(rq[r].path, "//") = 0
         /\ \A i \in 1..Len(cfg.Paths) :
                /\ cfg.Paths[i].Path # rq[r].path \o "/"
                /\ FirstChar(cfg.Paths[i].Path) = "/") =>
            /\ NotFoundNoBackend(rq[r])
            /\ \A i \in 1..Len(handler.routes) : handler.routes[i].lb.currentIndex = 0

C13_Witness ==
    \E r \in Requests :
        /\ cfg.Domain = "pathlb.local"
        /\ rq[r].path = "/health"
        /\ rq[r].st = "finished"
        /\ rq[r].client.n = 1
        /\ rq[r].client.status = 404
        /\ rq[r].client.body = "404 page not found\n"

\* how far the guard's and the proxy's goroutine of a request have come
GuardRank(st) ==
    CASE st = "new" -> 0
      [] st = "spawned" -> 1
      [] st = "blocked" -> 2
      [] st \in {"wake_done", "wake_timeout"} -> 3
      [] OTHER -> 4

ProxyRank(hpc) ==
    CASE hpc = "none" -> 0
      [] hpc = "start" -> 1
      [] hpc = "roundtrip" -> 2
      [] hpc \in {"respond", "failed"} -> 3
      [] hpc = "copy" -> 4
      [] OTHER -> 5

\* the cursor advances of all routes of the site together
RECURSIVE CursorSum(_, _)
CursorSum(routes, i) ==
    IF i > Len(routes) THEN 0
    ELSE routes[i].lb.currentIndex + CursorSum(routes, i + 1)

C15_TimeoutIsolation ==
    [][\A r \in Siblings :
           /\ ((~rq[r].expired /\ rq'[r].expired)
                   \/ (rq[r].sel # "timeout" /\ rq'[r].sel = "timeout")) =>
                  \A s \in Siblings \ {r} : rq'[s] = rq[s]
           /\ (Answered(rq'[r]) /\ ~rq'[r].expired /\ rq'[r].up.kind = "resp") =>
                  /\ rq'[r].client.n = 1
                  /\ rq'[r].client.status = rq'[r].up.status
                  /\ rq'[r].client.body = rq'[r].up.body]_vars

\* r1 was answered 503 and its outbound call is still in flight; r2, on the
\* same site, got its backend's response
C15_Witness ==
    /\ rq["r1"].st = "finished" /\ rq["r1"].sel = "timeout"
    /\ rq["r1"].hpc = "roundtrip"
    /\ rq["r1"].client.status = 503
    /\ rq["r2"].st = "finished" /\ rq["r2"].sel = "done"
    /\ ~rq["r2"].expired
    /\ rq["r2"].route = rq["r1"].route
    /\ rq["r2"].client.status = 200
    /\ rq["r2"].client.body = "Hello from upstream"

\* the routes whose prefix an earlier route of the site declares as well
LaterDuplicates(c) ==
    {j \in 1..Len(c.Paths) : \E i \in 1..(j - 1) : c.Paths[i].Path = c.Paths[j].Path}

\* the first route that declares the prefix of route j
FirstDeclared(c, j) ==
    CHOOSE i \in 1..Len(c.Paths) :
        /\ c.Paths[i].Path = c.Paths[j].Path
        /\ \A k \in 1..(i - 1) : c.Paths[k].Path # c.Paths[j].Path

\* C17: a site two of whose routes declare the same prefix (each with a
\* backend address that parses) is built and entered into the dispatch table,
\* and a request under that prefix is served by the route declared first.
C17_FirstOfEqualPrefixesServes ==
    (/\ handler # NoHandler
     /\ LaterDuplicates(cfg) # {}
     /\ \A i \in 1..Len(cfg.Paths) : ~ParseURL(cfg.Paths[i].Upstream).err) =>
        /\ ~handler.nil /\ ~handler.panic
        /\ cfg.Domain \in configs
        /\ \A r \in Requests :
               \A j \in LaterDuplicates(cfg) :
                   (rq[r].st # "new" /\ HasPrefix(rq[r].path, cfg.Paths[j].Path)) =>
                       rq[r].route = FirstDeclared(cfg, j)

C19_BodyIsStreamed ==
    \A r \in Requests :
        (/\ rq[r].hpc = "copy" /\ rq[r].copied >= 1
         /\ ~rq[r].expired /\ ~rq[r].refused) =>
            /\ rq[r].client.n = 1
            /\ HasPrefix(rq[r].client.body, rq[r].tw.body)

\* the records of a request that the proxy wrote (all but loggingHandler's)
ProxyRecords(q) == SelectSeq(q.log, LAMBDA m : m \notin {"Request", "Response"})
\* how often a message is among the records of a request
Count(log, msg) == Cardinality({i \in 1..Len(log) : log[i] = msg})

\* C22: every request that arrived has one "Request" record, the first of
\* its records, and once answered one "Response" record after it; for every
\* forwarded request, on every kind of route, the proxy has written exactly
\* one record when the outbound call is issued, and exactly two when it has
\* returned, the second one telling the completion or the failure of the call.
C22_DispatchLogging ==
    \A r \in Requests :
        /\ rq[r].st # "new" =>
               /\ Count(rq[r].log, "Request") = 1 /\ rq[r].log[1] = "Request"
               /\ Count(rq[r].log, "Response") = (IF rq[r].st = "finished" THEN 1 ELSE 0)
        /\ rq[r].hpc \in {"roundtrip", "respond", "failed"} =>
               Len(ProxyRecords(rq[r])) = 1
        /\ rq[r].hpc = "done" =>
               /\ Len(ProxyRecords(rq[r])) = 2
               /\ ProxyRecords(rq[r])[2] \in {"Upstream response", "Upstream error"}

\* C28: on a site whose read and write timeouts are both zero the guard's
\* duration is zero: the context of every forwarded request is done before
\* the proxy starts, the outbound call is made under a context that is done,
\* the guard never waits, and wherever the guard stands before its select the
\* timeout case can be taken; when it is taken the client gets 503 "Request
\* timeout", whether or not the proxy has already returned.
C28_ZeroDeadline ==
    \A r \in Requests :
        (cfg.Read = 0 /\ cfg.Write = 0 /\ rq[r].st # "new" /\ rq[r].route # 0) =>
            /\ handler.dt = 0
            /\ rq[r].expired /\ rq[r].xst = "new"
            /\ rq[r].nout > 0 => ~rq[r].sent
            /\ rq[r].st # "blocked"
            /\ rq[r].st = "spawned" => "wake_timeout" \in Ready(rq[r])
            /\ rq[r].sel = "timeout" =>
                   /\ rq[r].client.status = 503
                   /\ rq[r].client.body = "Request timeout"

\* the proxy had returned before the guard came to its select, and the
\* client got the 503 all the same
C28_Witness ==
    \E r \in Requests :
        /\ cfg.Read = 0 /\ cfg.Write = 0
        /\ rq[r].st = "finished" /\ rq[r].sel = "timeout"
        /\ rq[r].hpc = "done" /\ rq[r].dst = "spawned"
        /\ rq[r].client.n = 1
        /\ rq[r].client.status = 503
        /\ rq[r].client.body = "Request timeout"

\* the requests that took a backend from the balancer of route i
PickedOn(i) == {r \in Siblings : rq[r].route = i /\ rq[r].picks = 1}

\* C29: every balanced route has a cursor of its own, also when the routes
\* are balanced over the same site-level list: the cursor of a route counts
\* the selections made for requests of that route and no others, the k-th
\* of them got the k-th backend of the route's list whatever was selected on
\* the other routes, and a request answered 404 by the path router took no
\* selection and is counted by no cursor.
C29_PerRouteCursors ==
    /\ \A i \in 1..Len(handler.routes) :
           handler.routes[i].kind = "lb" =>
               LET l == handler.routes[i].lb
                   n == Cardinality(PickedOn(i))
               IN  /\ l.currentIndex = n
                   /\ {rq[r].target : r \in PickedOn(i)} = {l.upstreams[k] : k \in 1..n}
    /\ \A r \in Siblings :
           (rq[r].st = "finished" /\ rq[r].client.status = 404) =>
               /\ rq[r].route = 0 /\ rq[r].picks = 0 /\ rq[r].nout = 0
               /\ \A i \in 1..Len(handler.routes) : r \notin PickedOn(i)

\* two routes balanced over the site's list: each request is the first on
\* its route and each got the first backend
C29_Witness ==
    /\ cfg.Domain = "pathglobal.local"
    /\ rq["r1"].route = 1 /\ rq["r2"].route = 2
    /\ rq["r1"].picks = 1 /\ rq["r2"].picks = 1
    /\ rq["r1"].target.Host = "b1" /\ rq["r2"].target.Host = "b1"
    /\ handler.routes[1].lb.currentIndex = 1
    /\ handler.routes[2].lb.currentIndex = 1

\* the routes of a configuration that have no backend: neither an upstream
\* address nor an upstream list of their own, and no upstream list of the
\* site to fall back on
RoutesWithoutBackend(c) ==
    {i \in 1..Len(c.Paths) :
        /\ c.Paths[i].Upstream = ""
        /\ Len(c.Paths[i].Upstreams) = 0
        /\ Len(c.Upstreams) = 0}

\* C10: building the handler of a site with a route without backend fails:
\* NewSiteHandler returns an error, the site is not entered into the dispatch
\* table, and no request is ever answered by it.
C10_RouteWithoutBackendRejected ==
    (handler # NoHandler /\ RoutesWithoutBackend(cfg) # {}) =>
        /\ handler.nil /\ handler.err # None
        /\ cfg.Domain \notin configs
        /\ \A r \in Requests : rq[r].st = "new"

(***************************************************************************)
(* Claims about LoadConfigs (checked under SpecLoad)                       *)
(***************************************************************************)
\* the entries of the directory that are files named *.yml
YmlFiles ==
    {files[i] : i \in {j \in 1..Len(files) :
                          ~files[j].isDir /\ HasSuffix(files[j].name, ".yml")}}
\* the site configuration files: the *.yml files other than settings.yml
SiteFiles == {f \in YmlFiles : f.name # "settings.yml"}
\* a file LoadConfigs can make a site of
Loadable(f) == f.readable /\ ~Unmarshal(f.doc).err /\ Unmarshal(f.doc).Domain # ""

\* C23: for a directory whose site configuration files are all loadable,
\* LoadConfigs returns no error and a map with exactly one entry per site
\* configuration file, keyed by the file's domain, whether or not the
\* directory holds a settings.yml.
C23_SettingsIgnored ==
    (load.pc = "returned" /\ \A f \in SiteFiles : Loadable(f)) =>
        /\ load.err = None /\ ~load.nil
        /\ load.sites = {[Domain |-> Unmarshal(f.doc).Domain, File |-> f.name] :
                            f \in SiteFiles}

FailedSites == {c \in main.sites : NewSiteHandler(c).nil /\ NewSiteHandler(c).err # None}
BuiltSites == {c \in main.sites : ~NewSiteHandler(c).nil}

\* the dispatch table of the running process has the sites that were built
\* and not the ones that failed, and a request for the host of a failed site
\* gets the router's 404, never 502 or 503
C30_FailedSiteLeftOut ==
    main.pc = "serving" =>
        /\ \A c \in FailedSites : c.Domain \notin sites
        /\ \A c \in BuiltSites : c.Domain \in sites
        /\ \A c \in FailedSites :
               (hostResp.served /\ HostNames(hostReq.host, c.Domain)) =>
                   /\ hostResp.resp.status = 404
                   /\ hostResp.delegated = None

\* C30: a site whose handler construction returns an error is left out of
\* the dispatch table and its host gets the router's 404, never 502 or 503,
\* while every other site of the map is built, entered into the table and
\* served: a request for its host is handed to its handler.
C30_BuildFailureIsolation ==
    /\ C30_FailedSiteLeftOut
    /\ (main.pc = "serving" /\ FailedSites # {}) =>
           \A c \in BuiltSites :
               (hostResp.served /\ HostNames(hostReq.host, c.Domain)) =>
                   hostResp.delegated = c.Domain

(***************************************************************************)
(* Specifications                                                          *)
(***************************************************************************)
InitHost == InitHostOnly /\ LBIdle /\ MuxIdle /\ SrvIdle /\ LoadIdle
NextHost == ServeHost
SpecHost == InitHost /\ [][NextHost]_vars

InitLB == InitLBOnly /\ HostIdle /\ MuxIdle /\ SrvIdle /\ LoadIdle
NextLB == \E c \in Callers : NextLock(c) \/ NextPick(c) \/ NextUnlock(c)
SpecLB == InitLB /\ [][NextLB]_vars

\* the same calls on a balancer that has served others before
InitLBWrap == InitLBUsed /\ HostIdle /\ MuxIdle /\ SrvIdle /\ LoadIdle
SpecLBWrap == InitLBWrap /\ [][NextLB]_vars

InitMux == InitMuxOnly /\ HostIdle /\ LBIdle /\ SrvIdle /\ LoadIdle
NextMux == ServeMux
SpecMux == InitMux /\ [][NextMux]_vars

InitServe == InitSrvOnly /\ HostIdle /\ LBIdle /\ MuxIdle /\ LoadIdle
NextServe ==
    \/ Build
    \/ \E r \in Requests :
           \/ Arrive(r)
           \/ Forward(r)
           \/ RoundTripReturn(r)
           \/ WriteError(r)
           \/ RelayHeader(r)
           \/ CopyBody(r)
           \/ Deadline(r)
           \/ Select(r)
           \/ GuardDone(r)
           \/ GuardTimeout(r)
SpecServe == InitServe /\ [][NextServe]_vars

\* two requests at once on the sites with load-balanced routes
ConcurrentConfigs ==
    {c \in SiteConfigs : c.Domain \in {"lb.local", "pathlb.local"}}
InitServe2 ==
    /\ cfg \in ConcurrentConfigs
    /\ handler = NoHandler
    /\ configs = {}
    /\ rq = [r \in Siblings |-> NewRequest]
    /\ HostIdle /\ LBIdle /\ MuxIdle /\ LoadIdle
NextServe2 ==
    \/ Build
    \/ \E r \in Siblings :
           \/ ArriveSibling(r)
           \/ Forward(r)
           \/ RoundTripReturn(r)
           \/ WriteError(r)
           \/ RelayHeader(r)
           \/ CopyBody(r)
           \/ Deadline(r)
           \/ Select(r)
           \/ GuardDone(r)
           \/ GuardTimeout(r)
SpecServe2 == InitServe2 /\ [][NextServe2]_vars

\* two requests at once on the sites whose routes are balanced
RouteConfigs ==
    {c \in SiteConfigs : c.Domain \in {"pathglobal.local", "pathlb.local"}}
InitRoutes ==
    /\ cfg \in RouteConfigs
    /\ handler = NoHandler
    /\ configs = {}
    /\ rq = [r \in Siblings |-> NewRequest]
    /\ HostIdle /\ LBIdle /\ MuxIdle /\ LoadIdle
NextRoutes ==
    \/ Build
    \/ \E r \in Siblings :
           \/ ArriveOnRoutes(r)
           \/ Forward(r)
           \/ RoundTripReturn(r)
           \/ WriteError(r)
           \/ RelayHeader(r)
           \/ CopyBody(r)
           \/ Deadline(r)
           \/ Select(r)
           \/ GuardDone(r)
           \/ GuardTimeout(r)
SpecRoutes == InitRoutes /\ [][NextRoutes]_vars

InitLoad == InitLoadOnly /\ HostIdle /\ LBIdle /\ MuxIdle /\ SrvIdle

InitMain == InitMainOnly /\ LBIdle /\ MuxIdle
NextMain == BuildSite \/ StartRouter \/ ServeRouted
SpecMain == InitMain /\ [][NextMain]_vars
NextLoad == ReadDir \/ LoadFile \/ LoadReturn
SpecLoad == InitLoad /\ [][NextLoad]_vars
====
